---- MODULE Spec2Model ----
(***************************************************************************)
(* Model of the MDUS asynchronous processing backbone:                     *)
(*   api-backend/app/services/queue_service.py     (QueueService)          *)
(*   api-backend/app/services/processing_worker.py (DocumentProcessor)     *)
(*   api-backend/app/services/lifecycle_manager.py (stuck-job reaping)     *)
(* Every `await redis.<op>` of the source is one step of the coroutine     *)
(* that runs it: coroutines of one event loop, and the processes sharing   *)
(* the Redis instance, interleave between those steps.                     *)
(***************************************************************************)
EXTENDS Integers, Sequences, FiniteSets, TLC

\* ---------------------------------------------------------------- bounds
MaxJobs == 2
ConcJobs == 1
MaxTime == 1
MaxRetries == 2
MaxPriority == 1
job_timeout == 1
HistCap == 3
job_ttl == 2
LongTime == 3
old_job_days == 3
MetricCap == 3
MaxTextLength == 2000

Jobs == 1..MaxJobs
Workers == {1, 2}
Slots == {1, 2}
Reapers == {1, 2}
Priorities == 0..MaxPriority
NoJob == 0
NoExpiry == 0

\* ------------------------------------------------------------ job records
\* A result, as far as its encoding goes: the kind of value file_info holds
\* under "created" and "modified". NoResult is None.
NoResult == [file_info |-> [created |-> "none", modified |-> "none"]]

\* processing_worker.py 121-130, file_storage.py 156-162: the result that
\* _process_document returns carries the file_info of get_file_info, whose
\* "created" and "modified" are datetime objects.
ProcessingResult == [file_info |-> [created |-> "datetime", modified |-> "datetime"]]

\* ProcessingJob, as stored under mdus:job:<id>; NoRec is a missing key.
NoRec ==
    [status |-> "absent", priority |-> 0, retry_count |-> 0, max_retries |-> 0,
     started_at |-> "none", completed_at |-> "none", error_message |-> "none",
     result |-> NoResult]

ProcessingJob(priority, max_retries) ==
    [status |-> "queued", priority |-> priority, retry_count |-> 0,
     max_retries |-> max_retries, started_at |-> "none", completed_at |-> "none",
     error_message |-> "none", result |-> NoResult]

\* queue_service.py 312: json.dumps(asdict(job)) encodes strings, numbers and
\* None, and raises TypeError on a datetime object.
JsonSerializable(job) ==
    /\ job.result.file_info.created # "datetime"
    /\ job.result.file_info.modified # "datetime"

\* ------------------------------------------------- Redis sorted-set helpers
\* A sorted set is a function member -> score; its members are its DOMAIN.
EmptyZ == [m \in {} |-> 0]

ZAdd(zs, m, s) == [x \in DOMAIN zs \cup {m} |-> IF x = m THEN s ELSE zs[x]]

ZRem(zs, m) == [x \in DOMAIN zs \ {m} |-> zs[x]]

\* Redis orders a sorted set by score, members of equal score by the member
\* itself (lexicographically): the job id, a uuid4, here an integer.
ZBefore(zs, a, b) == zs[a] < zs[b] \/ (zs[a] = zs[b] /\ a <= b)

\* zrange(key, 0, 0): the first member in that order, NoJob when empty.
ZRangeFirst(zs) ==
    IF DOMAIN zs = {} THEN NoJob
    ELSE CHOOSE m \in DOMAIN zs : \A o \in DOMAIN zs : ZBefore(zs, m, o)

RECURSIVE ZOrdered(_, _)
ZOrdered(zs, S) ==
    IF S = {} THEN <<>>
    ELSE LET m == CHOOSE x \in S : \A o \in S : ZBefore(zs, x, o)
         IN  <<m>> \o ZOrdered(zs, S \ {m})

\* zrangebyscore(key, lo, hi): the members with lo <= score <= hi, in order.
ZRangeByScore(zs, lo, hi) ==
    ZOrdered(zs, {m \in DOMAIN zs : lo <= zs[m] /\ zs[m] <= hi})

\* ---------------------------------------------------------------- state
VARIABLES
    store,          \* mdus:job:<id>      : Jobs -> record | NoRec
    pending,        \* mdus:jobs:pending    (score = -priority)
    processing,     \* mdus:jobs:processing (score = start time)
    completed,      \* mdus:jobs:completed  (score = completion time)
    failed,         \* mdus:jobs:failed     (score = failure time)
    expiry,         \* per record key: when its TTL runs out (NoExpiry: not before the horizon)
    now,            \* datetime.utcnow()
    horizon,        \* how far the clock of the scenario runs
    reapers,        \* the runs of cleanup_stuck_jobs that can be under way at once
    retry_attempts, \* settings.retry_attempts
    max_concurrent_jobs, \* settings.max_concurrent_jobs
    njobs,          \* how many jobs the producers submit
    workers,        \* the DocumentProcessor instances that run
    atomic,         \* TRUE: every QueueService call runs uninterrupted
    track,          \* TRUE: hist and before are kept
    prod,           \* a call of queue_document_processing in progress
    loop,           \* per worker: _processing_loop / get_next_job position
    proc,           \* per worker: is_running and the call of stop()
    tasks,          \* per worker: processing_jobs, the executor tasks
    reaper,         \* per run: a call of cleanup_stuck_jobs in progress
    purger,         \* a call of cleanup_old_jobs in progress
    enqOrder,       \* history: job ids in the order they entered pending
    hist,           \* history: per job, starts, failed executions and requeues
    before,         \* history: the Redis state when the last queue call began
    sched,          \* FileLifecycleManager: is_running, the tick loop, the schedule
    units,          \* per maintenance task: the runs created, by how they ended
    metrics,        \* mdus:metrics:<name> : the counters of _update_metrics
    pipeline        \* one run of _process_document: its position and its result

redis == <<store, expiry, pending, processing, completed, failed>>
lifecycle == <<sched, units>>
settings == <<retry_attempts, max_concurrent_jobs, njobs, workers, atomic, track, horizon,
              reapers>>
vars == <<store, expiry, pending, processing, completed, failed, now, retry_attempts,
          max_concurrent_jobs, njobs, workers, atomic, track, horizon, reapers, prod, loop, proc, tasks, reaper, purger, enqOrder, hist, before, sched, units, metrics, pipeline>>

MaintenanceTasks == {"temp_file_cleanup", "stuck_job_cleanup",
                     "retention_policy_enforcement", "old_job_cleanup",
                     "archive_cleanup"}

IdleProd == [pc |-> "idle", jid |-> NoJob, priority |-> 0]
IdleLoop == [pc |-> "idle", jid |-> NoJob, data |-> NoRec]
Started == [is_running |-> TRUE, stop |-> "idle", awaited |-> {}]
FreeTask == [pc |-> "free", job |-> NoJob, data |-> NoRec, msg |-> "none",
             inference |-> FALSE]
NoneSeen == [j \in Jobs |-> 0]
IdlePurger == [pc |-> "idle", todo |-> <<>>, days |-> old_job_days]
IdleReaper == [pc |-> "idle", todo |-> <<>>, data |-> NoRec, seen |-> NoneSeen]
Constructed == [pc |-> "constructed", is_running |-> FALSE, clock |-> 0,
                next_run |-> [t \in MaintenanceTasks |-> 0]]
NoUnits == [t \in MaintenanceTasks |->
               [running |-> 0, completed |-> 0, failed |-> 0, raised |-> 0]]
NoMetrics == [jobs_queued |-> 0, jobs_completed |-> 0, jobs_failed |-> 0]

\* A key processing_result does not hold.
NoClassification ==
    [present |-> FALSE, document_type |-> "none", confidence |-> 0, error |-> FALSE]
NoExtraction ==
    [present |-> FALSE, text_length |-> 0, text_null |-> FALSE, confidence |-> 0,
     error |-> FALSE]
NoEntities == [present |-> FALSE, confidence |-> 0, error |-> FALSE]
NoQuality ==
    [present |-> FALSE, quality_score |-> 0, assessment |-> "none",
     quality_issues |-> {}, error |-> FALSE]

\* A float, as the fraction num / den.
Zero == [num |-> 0, den |-> 1]

\* processing_worker.py 123-133: processing_result after file validation.
NewResult ==
    [classification |-> NoClassification, text_extraction |-> NoExtraction,
     entity_extraction |-> NoEntities, quality_assessment |-> NoQuality,
     steps_completed |-> <<"file_validation">>, confidence_score |-> Zero]

NoPipeline == [pc |-> "none", document_type |-> "none", result |-> NewResult]

\* ---------------------------------------------------- who is inside a call
CallPcs == {"zrem", "zadd", "get", "save",
            "c_zrem", "c_zadd", "c_get", "c_save",
            "f_zrem", "f_get", "f_zadd", "f_save",
            "scan_failed", "delete", "zrem_completed", "zrem_failed"}

Busy ==
    {<<"producer", 0, 0>> : x \in {y \in {1} : prod.pc \in CallPcs}}
    \cup {<<"loop", w, 0>> : w \in {v \in Workers : loop[v].pc \in CallPcs}}
    \cup {<<"task", p[1], p[2]>> :
             p \in {q \in Workers \X Slots : tasks[q[1]][q[2]].pc \in CallPcs}}
    \cup {<<"reaper", r, 0>> : r \in {q \in Reapers : reaper[q].pc \in CallPcs}}
    \cup {<<"purger", 0, 0>> : x \in {y \in {1} : purger.pc \in CallPcs}}

\* With atomic calls, a coroutine steps only while no other is inside a call.
CanStep(p) == atomic => Busy \subseteq {p}

InitBackbone ==
    /\ store = [j \in Jobs |-> NoRec]
    /\ expiry = [j \in Jobs |-> NoExpiry]
    /\ pending = EmptyZ
    /\ processing = EmptyZ
    /\ completed = EmptyZ
    /\ failed = EmptyZ
    /\ now = 0
    /\ prod = IdleProd
    /\ loop = [w \in Workers |-> IdleLoop]
    /\ proc = [w \in Workers |-> Started]
    /\ tasks = [w \in Workers |-> [s \in Slots |-> FreeTask]]
    /\ reaper = [r \in Reapers |-> IdleReaper]
    /\ purger = IdlePurger
    /\ sched = Constructed
    /\ units = NoUnits
    /\ metrics = NoMetrics
    /\ enqOrder = <<>>
    /\ hist = [j \in Jobs |-> [starts |-> 0, failed_execs |-> 0, requeues |-> 0]]
    /\ before = <<[j \in Jobs |-> NoRec], [j \in Jobs |-> NoExpiry],
                 EmptyZ, EmptyZ, EmptyZ, EmptyZ>>

InitCommon ==
    /\ InitBackbone
    /\ pipeline = NoPipeline

\* The workers, the producer and the reaper run concurrently, as deployed.
Init ==
    /\ InitCommon
    /\ retry_attempts \in 0..MaxRetries
    /\ max_concurrent_jobs = 1
    /\ njobs = ConcJobs
    /\ workers = Workers
    /\ atomic = FALSE
    /\ track = FALSE
    /\ horizon = MaxTime
    /\ reapers = {1}

\* What a queue call finds when it begins.
Snapshot == IF track THEN redis ELSE before

\* ------------------------------------------------------- _update_metrics
\* queue_service.py 315-327: incrby(mdus:metrics:<name>, 1); the counter of
\* the day moves with it. The count is kept up to MetricCap.
UpdateMetrics(name) ==
    metrics' = [metrics EXCEPT ![name] = IF @ < MetricCap THEN @ + 1 ELSE @]

\* ------------------------------------------------------- _save_job_data
\* queue_service.py 307-311: setex(key, 24 h, data). An expiry the clock of
\* the scenario cannot reach is kept as NoExpiry.
ExpiresAt == IF now + job_ttl > horizon THEN NoExpiry ELSE now + job_ttl

\* Setex leaving the expiry of a record that exists as it is.
SetexKeepTtl(jid, data) ==
    /\ store' = [store EXCEPT ![jid] = data]
    /\ expiry' = [expiry EXCEPT ![jid] =
                     IF store[jid] = NoRec THEN ExpiresAt ELSE expiry[jid]]

Setex(jid, data) ==
    /\ store' = [store EXCEPT ![jid] = data]
    /\ expiry' = [expiry EXCEPT ![jid] = ExpiresAt]

\* ------------------------------------------- queue_document_processing
\* uuid4 gives a fresh id: any id no record or index has held.
FreshIds == {j \in 1..njobs : \A i \in 1..Len(enqOrder) : enqOrder[i] # j}

\* EnqueueSetex leaving the record unwritten on the way to the zadd.
EnqueueSetexSkipped(jid, priority) ==
    /\ prod.pc = "idle"
    /\ CanStep(<<"producer", 0, 0>>)
    /\ jid \in FreshIds
    /\ prod' = [pc |-> "zadd", jid |-> jid, priority |-> priority]
    /\ UNCHANGED <<redis, now, settings, loop, tasks, reaper, enqOrder, hist, proc, purger, lifecycle, metrics, pipeline>>
    /\ before' = Snapshot

\* lines 70-89: build the job, setex its record.
EnqueueSetex(jid, priority) ==
    /\ prod.pc = "idle"
    /\ CanStep(<<"producer", 0, 0>>)
    /\ jid \in FreshIds
    /\ Setex(jid, ProcessingJob(priority, retry_attempts))
    /\ prod' = [pc |-> "zadd", jid |-> jid, priority |-> priority]
    /\ UNCHANGED <<pending, processing, completed, failed, now, settings, loop, tasks, reaper, enqOrder, hist, proc, purger, lifecycle, metrics, pipeline>>
    /\ before' = Snapshot

\* PendingScore without the negation: ascending priority.
PendingScoreAscending(priority) == priority

\* The score the pending index gets for a priority (line 92).
PendingScore(priority) == -priority

\* lines 91-98: zadd to pending under the negated priority, then the
\* jobs_queued metric.
EnqueueZadd ==
    /\ prod.pc = "zadd"
    /\ CanStep(<<"producer", 0, 0>>)
    /\ pending' = ZAdd(pending, prod.jid, PendingScore(prod.priority))
    /\ enqOrder' = Append(enqOrder, prod.jid)
    /\ UpdateMetrics("jobs_queued")
    /\ prod' = IdleProd
    /\ UNCHANGED <<store, expiry, processing, completed, failed, now, settings, loop, tasks, reaper, hist, before, proc, purger, lifecycle, pipeline>>

\* --------------------------------------------------------- history counters
Bump(j, field) ==
    IF ~track THEN hist ELSE
    [hist EXCEPT ![j][field] = IF @ < HistCap THEN @ + 1 ELSE @]

\* ------------------------------------- _processing_loop and get_next_job
\* len(self.processing_jobs): finished tasks count until they are pruned.
TrackedTasks(w) == {s \in Slots : tasks[w][s].pc # "free"}

\* HasCapacity admitting one task too many: <= for <.
HasCapacityInclusive(tracked, capacity) == tracked <= capacity

\* processing_worker.py 71: len(self.processing_jobs) < self.max_concurrent_jobs.
HasCapacity(tracked, capacity) == tracked < capacity

\* processing_worker.py 68-74, queue_service.py 105-110: the capacity check,
\* then zrange(pending, 0, 0). An empty answer returns None and the loop sleeps.
LoopZrange(w) ==
    /\ loop[w].pc = "idle"
    /\ proc[w].is_running
    /\ CanStep(<<"loop", w, 0>>)
    /\ HasCapacity(Cardinality(TrackedTasks(w)), max_concurrent_jobs)
    /\ LET head == ZRangeFirst(pending)
       IN  loop' = [loop EXCEPT ![w] =
                       IF head = NoJob THEN IdleLoop
                       ELSE [pc |-> "zrem", jid |-> head, data |-> NoRec]]
    /\ UNCHANGED <<redis, now, settings, prod, tasks, reaper,
                   enqOrder, hist, proc, purger, lifecycle, metrics, pipeline>>
    /\ before' = Snapshot

\* line 113: zrem(pending, job_id); the reply is not looked at.
LoopZrem(w) ==
    /\ loop[w].pc = "zrem"
    /\ CanStep(<<"loop", w, 0>>)
    /\ pending' = ZRem(pending, loop[w].jid)
    /\ loop' = [loop EXCEPT ![w].pc = "zadd"]
    /\ UNCHANGED <<store, expiry, processing, completed, failed, now, settings, prod, tasks, reaper, enqOrder, hist, before, proc, purger, lifecycle, metrics, pipeline>>

\* line 116: zadd(processing, {job_id: now}).
LoopZadd(w) ==
    /\ loop[w].pc = "zadd"
    /\ CanStep(<<"loop", w, 0>>)
    /\ processing' = ZAdd(processing, loop[w].jid, now)
    /\ loop' = [loop EXCEPT ![w].pc = "get"]
    /\ UNCHANGED <<store, expiry, pending, completed, failed, now, settings, prod, tasks, reaper, enqOrder, hist, before, proc, purger, lifecycle, metrics, pipeline>>

\* StartedData without the start time.
StartedDataUnstamped(rec) == [rec EXCEPT !.status = "processing"]

\* lines 125-126: the record get_next_job writes back.
StartedData(rec) == [rec EXCEPT !.status = "processing", !.started_at = "set"]

\* lines 119-126: read the record; a missing record returns None.
LoopGet(w) ==
    /\ loop[w].pc = "get"
    /\ CanStep(<<"loop", w, 0>>)
    /\ LET rec == store[loop[w].jid]
       IN  loop' = [loop EXCEPT ![w] =
                       IF rec = NoRec THEN IdleLoop
                       ELSE [pc |-> "save", jid |-> loop[w].jid,
                             data |-> StartedData(rec)]]
    /\ UNCHANGED <<redis, now, settings, prod, tasks, reaper,
                   enqOrder, hist, before, proc, purger, lifecycle, metrics, pipeline>>

\* The slot the new task takes: processing_jobs is a set, the slot's number
\* means nothing, so the first slot that is free or about to be pruned.
NewSlot(w) ==
    CHOOSE s \in Slots :
        /\ tasks[w][s].pc \in {"free", "done"}
        /\ \A o \in Slots : tasks[w][o].pc \in {"free", "done"} => s <= o

\* queue_service.py 127-130, processing_worker.py 74-80: save the record,
\* return the job, create its task, prune the finished tasks.
LoopSave(w) ==
    /\ loop[w].pc = "save"
    /\ CanStep(<<"loop", w, 0>>)
    /\ Setex(loop[w].jid, loop[w].data)
    /\ tasks' = [tasks EXCEPT ![w] =
                    [s \in Slots |->
                        IF s = NewSlot(w)
                        THEN [pc |-> "run", job |-> loop[w].jid,
                              data |-> NoRec, msg |-> "none",
                              inference |-> FALSE]
                        ELSE IF tasks[w][s].pc = "done" THEN FreeTask
                        ELSE tasks[w][s]]]
    /\ loop' = [loop EXCEPT ![w] = IdleLoop]
    /\ hist' = Bump(loop[w].jid, "starts")
    /\ UNCHANGED <<pending, processing, completed, failed, now, settings, prod, reaper, enqOrder, before, purger, lifecycle, metrics, pipeline>>
    /\ proc' = [proc EXCEPT ![w].awaited = @ \ {s \in Slots : tasks[w][s].pc = "done"}]

\* ------------------------------------------------------------------ stop
\* processing_worker.py 52-57: is_running = False, then gather over the tasks
\* processing_jobs holds at that moment (a worker with no task goes on to
\* close its HTTP client).
StopCall(w) ==
    /\ proc[w].stop = "idle"
    /\ proc' = [proc EXCEPT ![w] =
                    [is_running |-> FALSE, stop |-> "waiting",
                     awaited |-> TrackedTasks(w)]]
    /\ UNCHANGED <<redis, now, settings, prod, loop, tasks, reaper, enqOrder, hist, before, purger, lifecycle, metrics, pipeline>>

\* processing_worker.py 57-63, run_system.py 47-48: every awaited task is
\* done, stop() returns and its caller cancels the task of the loop.
StopReturn(w) ==
    /\ proc[w].stop = "waiting"
    /\ \A s \in proc[w].awaited : tasks[w][s].pc = "done"
    /\ proc' = [proc EXCEPT ![w].stop = "returned", ![w].awaited = {}]
    /\ loop' = [loop EXCEPT ![w] = [IdleLoop EXCEPT !.pc = "cancelled"]]
    /\ UNCHANGED <<redis, now, settings, prod, tasks, reaper, enqOrder, hist, before, purger, lifecycle, metrics, pipeline>>

\* ------------------------------------------- complete_job and fail_job data
\* queue_service.py 148-150: the record complete_job writes back.
CompletedData(rec, result) ==
    [rec EXCEPT !.status = "completed", !.completed_at = "set", !.result = result]

\* ShouldRetry with the comparison off by one: retries while retry_count <= max_retries.
ShouldRetryInclusive(retry, retry_count, max_retries) ==
    retry /\ retry_count <= max_retries

\* queue_service.py 180: whether a failure is retried.
ShouldRetry(retry, retry_count, max_retries) == retry /\ retry_count < max_retries

\* FailJobData without the error message.
FailJobDataNoError(rec, msg, retry) ==
    LET r == [rec EXCEPT !.retry_count = @ + 1, !.completed_at = "set"]
    IN  IF ShouldRetry(retry, r.retry_count, r.max_retries)
        THEN [r EXCEPT !.status = "queued", !.started_at = "none",
                       !.completed_at = "none"]
        ELSE [r EXCEPT !.status = "failed"]

\* queue_service.py 175-192: the record fail_job writes back.
FailJobData(rec, msg, retry) ==
    LET r == [rec EXCEPT !.retry_count = @ + 1, !.error_message = msg,
                         !.completed_at = "set"]
    IN  IF ShouldRetry(retry, r.retry_count, r.max_retries)
        THEN [r EXCEPT !.status = "queued", !.started_at = "none",
                       !.completed_at = "none"]
        ELSE [r EXCEPT !.status = "failed"]

\* queue_service.py 187: the pending score of a retried job.
RetryScore(rec) == -(rec.priority - 1)

\* ------------------------------------------------ _process_job (executor)
TaskStep(w, s, pc) ==
    /\ tasks[w][s].pc = pc
    /\ CanStep(<<"task", w, s>>)

SetTask(w, s, t) == tasks' = [tasks EXCEPT ![w][s] = t]

\* The document types a job is submitted with, as _process_document tells
\* them apart (processing_worker.py 136 and 147).
DocumentTypes == {"unknown", "other", "medical_report", "prescription",
                  "laboratory_result", "invoice"}

\* PipelineCalls going on to the inference steps without the artifact.
PipelineCallsUnvalidated(exists, document_type) ==
    (IF document_type \in {"other", "unknown"} THEN <<"classify">> ELSE <<>>)
    \o <<"extract_text">>
    \o (IF document_type \in {"medical_report", "prescription", "laboratory_result"}
        THEN <<"extract_entities">> ELSE <<>>)

\* processing_worker.py 121-153: the inference calls one execution makes.
\* get_file_info raises when the artifact is missing (file_storage.py
\* 149-151), before any of them.
PipelineCalls(exists, document_type) ==
    IF ~exists THEN <<>>
    ELSE (IF document_type \in {"other", "unknown"} THEN <<"classify">> ELSE <<>>)
         \o <<"extract_text">>
         \o (IF document_type \in {"medical_report", "prescription",
                                   "laboratory_result"}
             THEN <<"extract_entities">> ELSE <<>>)

\* processing_worker.py 96: _process_document returns a result: the artifact
\* exists; an inference call that fails is caught inside its step (lines
\* 175-247), which then yields its fallback value instead of raising.
TaskSucceed(w, s) ==
    /\ TaskStep(w, s, "run")
    /\ \E document_type \in DocumentTypes :
          SetTask(w, s, [tasks[w][s] EXCEPT
                            !.pc = "c_zrem",
                            !.inference = PipelineCalls(TRUE, document_type) # <<>>])
    /\ UNCHANGED <<redis, now, settings, prod, loop, reaper,
                   enqOrder, hist, before, proc, purger, lifecycle, metrics, pipeline>>

\* processing_worker.py 96, 109-113: _process_document raises (the artifact is
\* missing, file_storage.py 150-151): the except branch calls fail_job.
TaskRaise(w, s) ==
    /\ TaskStep(w, s, "run")
    /\ \E document_type \in DocumentTypes :
          SetTask(w, s, [tasks[w][s] EXCEPT
                            !.pc = "f_zrem", !.msg = "exec",
                            !.inference = PipelineCalls(FALSE, document_type) # <<>>])
    /\ hist' = Bump(tasks[w][s].job, "failed_execs")
    /\ UNCHANGED <<redis, now, settings, prod, loop, reaper,
                   enqOrder, before, proc, purger, lifecycle, metrics, pipeline>>

\* complete_job, queue_service.py 140.
CompleteZrem(w, s) ==
    /\ TaskStep(w, s, "c_zrem")
    /\ processing' = ZRem(processing, tasks[w][s].job)
    /\ SetTask(w, s, [tasks[w][s] EXCEPT !.pc = "c_zadd"])
    /\ UNCHANGED <<store, expiry, pending, completed, failed, now, settings, prod, loop, reaper, enqOrder, hist, proc, purger, lifecycle, metrics, pipeline>>
    /\ before' = Snapshot

\* complete_job, queue_service.py 143.
CompleteZadd(w, s) ==
    /\ TaskStep(w, s, "c_zadd")
    /\ completed' = ZAdd(completed, tasks[w][s].job, now)
    /\ SetTask(w, s, [tasks[w][s] EXCEPT !.pc = "c_get"])
    /\ UNCHANGED <<store, expiry, pending, processing, failed, now, settings, prod, loop, reaper, enqOrder, hist, before, proc, purger, lifecycle, metrics, pipeline>>

\* complete_job, queue_service.py 146-154: a missing record skips the save and
\* goes on to the jobs_completed metric.
CompleteGet(w, s) ==
    /\ TaskStep(w, s, "c_get")
    /\ LET rec == store[tasks[w][s].job]
       IN  IF rec = NoRec
           THEN /\ SetTask(w, s, [tasks[w][s] EXCEPT !.pc = "move"])
                /\ UpdateMetrics("jobs_completed")
           ELSE /\ SetTask(w, s, [tasks[w][s] EXCEPT
                                     !.pc = "c_save",
                                     !.data = CompletedData(rec, ProcessingResult)])
                /\ UNCHANGED metrics
    /\ UNCHANGED <<redis, now, settings, prod, loop, reaper,
                   enqOrder, hist, before, proc, purger, lifecycle, pipeline>>

\* complete_job, queue_service.py 151, 303-313: _save_job_data encodes the
\* record; when json.dumps raises, nothing is written and the except branch of
\* _process_job calls fail_job (processing_worker.py 109-113).
CompleteSave(w, s) ==
    /\ TaskStep(w, s, "c_save")
    /\ IF JsonSerializable(tasks[w][s].data)
       THEN /\ Setex(tasks[w][s].job, tasks[w][s].data)
            /\ UpdateMetrics("jobs_completed")
            /\ SetTask(w, s, [tasks[w][s] EXCEPT !.pc = "move", !.data = NoRec])
            /\ UNCHANGED hist
       ELSE /\ UNCHANGED <<store, expiry, metrics>>
            /\ SetTask(w, s, [tasks[w][s] EXCEPT !.pc = "f_zrem", !.msg = "json",
                                                 !.data = NoRec])
            /\ hist' = Bump(tasks[w][s].job, "failed_execs")
    /\ UNCHANGED <<pending, processing, completed, failed, now, settings, prod, loop, reaper, enqOrder, before, proc, purger, lifecycle, pipeline>>

\* processing_worker.py 102-107: move_to_processed returns; the task ends.
MoveOk(w, s) ==
    /\ TaskStep(w, s, "move")
    /\ SetTask(w, s, [FreeTask EXCEPT !.pc = "done"])
    /\ UNCHANGED <<redis, now, settings, prod, loop, reaper,
                   enqOrder, hist, before, proc, purger, lifecycle, metrics, pipeline>>

\* processing_worker.py 102-113, file_storage.py 86-101: move_to_processed
\* raises inside the try block, so the except branch calls fail_job.
MoveFail(w, s) ==
    /\ TaskStep(w, s, "move")
    /\ SetTask(w, s, [tasks[w][s] EXCEPT !.pc = "f_zrem", !.msg = "move"])
    /\ hist' = Bump(tasks[w][s].job, "failed_execs")
    /\ UNCHANGED <<redis, now, settings, prod, loop, reaper,
                   enqOrder, before, proc, purger, lifecycle, metrics, pipeline>>

\* fail_job, queue_service.py 167.
TaskFailZrem(w, s) ==
    /\ TaskStep(w, s, "f_zrem")
    /\ processing' = ZRem(processing, tasks[w][s].job)
    /\ SetTask(w, s, [tasks[w][s] EXCEPT !.pc = "f_get"])
    /\ UNCHANGED <<store, expiry, pending, completed, failed, now, settings, prod, loop, reaper, enqOrder, hist, proc, purger, lifecycle, metrics, pipeline>>
    /\ before' = Snapshot

\* TaskFailGet going on without the test for a missing record.
TaskFailGetUnchecked(w, s) ==
    /\ TaskStep(w, s, "f_get")
    /\ SetTask(w, s, [tasks[w][s] EXCEPT
                         !.pc = "f_zadd",
                         !.data = FailJobData(store[tasks[w][s].job],
                                              tasks[w][s].msg, TRUE)])
    /\ UNCHANGED <<redis, now, settings, prod, loop, reaper,
                   enqOrder, hist, before, proc, purger, lifecycle, metrics, pipeline>>

\* fail_job, queue_service.py 170-185: a missing record returns at once.
TaskFailGet(w, s) ==
    /\ TaskStep(w, s, "f_get")
    /\ LET rec == store[tasks[w][s].job]
       IN  SetTask(w, s,
               IF rec = NoRec THEN [FreeTask EXCEPT !.pc = "done"]
               ELSE [tasks[w][s] EXCEPT !.pc = "f_zadd",
                         !.data = FailJobData(rec, tasks[w][s].msg, TRUE)])
    /\ UNCHANGED <<redis, now, settings, prod, loop, reaper,
                   enqOrder, hist, before, proc, purger, lifecycle, metrics, pipeline>>

\* fail_job, queue_service.py 187 (retry) or 193-196 (terminal, with the
\* jobs_failed metric).
TaskFailZadd(w, s) ==
    /\ TaskStep(w, s, "f_zadd")
    /\ LET t == tasks[w][s]
       IN  IF t.data.status = "queued"
           THEN /\ pending' = ZAdd(pending, t.job, RetryScore(t.data))
                /\ hist' = Bump(t.job, "requeues")
                /\ UNCHANGED <<failed, metrics>>
           ELSE /\ failed' = ZAdd(failed, t.job, now)
                /\ UpdateMetrics("jobs_failed")
                /\ UNCHANGED <<pending, hist>>
    /\ SetTask(w, s, [tasks[w][s] EXCEPT !.pc = "f_save"])
    /\ UNCHANGED <<store, expiry, processing, completed, now, settings, prod, loop, reaper, enqOrder, before, proc, purger, lifecycle, pipeline>>

\* fail_job, queue_service.py 200; the task ends.
TaskFailSave(w, s) ==
    /\ TaskStep(w, s, "f_save")
    /\ Setex(tasks[w][s].job, tasks[w][s].data)
    /\ SetTask(w, s, [FreeTask EXCEPT !.pc = "done"])
    /\ UNCHANGED <<pending, processing, completed, failed, now, settings, prod, loop, reaper, enqOrder, hist, before, proc, purger, lifecycle, metrics, pipeline>>

\* ------------------------------------------------------ cleanup_stuck_jobs
ReaperStep(r, pc) ==
    /\ reaper[r].pc = pc
    /\ CanStep(<<"reaper", r, 0>>)

SetReaper(r, x) == reaper' = [reaper EXCEPT ![r] = x]

\* queue_service.py 229-230.
Cutoff(timeout) == now - timeout

\* History: the retry_count every job has when a run scans the in-flight index.
Seen == IF track THEN [j \in Jobs |-> store[j].retry_count] ELSE NoneSeen

\* What follows one fail_job of the loop at 241-247: the next stuck job, or
\* the end of the run.
ReaperNext(todo, seen) ==
    IF todo = <<>> THEN IdleReaper
    ELSE [pc |-> "f_zrem", todo |-> todo, data |-> NoRec, seen |-> seen]

\* queue_service.py 226-241: zrangebyscore(processing, 0, cutoff).
ReapScan(r) ==
    /\ ReaperStep(r, "idle")
    /\ SetReaper(r, ReaperNext(ZRangeByScore(processing, 0, Cutoff(job_timeout)), Seen))
    /\ UNCHANGED <<redis, now, settings, prod, loop, tasks,
                   enqOrder, hist, before, proc, purger, lifecycle, metrics, pipeline>>

\* fail_job, queue_service.py 167.
ReapFailZrem(r) ==
    /\ ReaperStep(r, "f_zrem")
    /\ processing' = ZRem(processing, Head(reaper[r].todo))
    /\ SetReaper(r, [reaper[r] EXCEPT !.pc = "f_get"])
    /\ UNCHANGED <<store, expiry, pending, completed, failed, now, settings, prod, loop, tasks, enqOrder, hist, proc, purger, lifecycle, metrics, pipeline>>
    /\ before' = Snapshot

\* fail_job, queue_service.py 170-185.
ReapFailGet(r) ==
    /\ ReaperStep(r, "f_get")
    /\ LET rec == store[Head(reaper[r].todo)]
       IN  SetReaper(r, IF rec = NoRec
                        THEN ReaperNext(Tail(reaper[r].todo), reaper[r].seen)
                        ELSE [reaper[r] EXCEPT !.pc = "f_zadd",
                                  !.data = FailJobData(rec, "timeout", TRUE)])
    /\ UNCHANGED <<redis, now, settings, prod, loop, tasks,
                   enqOrder, hist, before, proc, purger, lifecycle, metrics, pipeline>>

\* fail_job, queue_service.py 187 (retry) or 193-196 (terminal, with the
\* jobs_failed metric).
ReapFailZadd(r) ==
    /\ ReaperStep(r, "f_zadd")
    /\ LET j == Head(reaper[r].todo)
       IN  IF reaper[r].data.status = "queued"
           THEN /\ pending' = ZAdd(pending, j, RetryScore(reaper[r].data))
                /\ hist' = Bump(j, "requeues")
                /\ UNCHANGED <<failed, metrics>>
           ELSE /\ failed' = ZAdd(failed, j, now)
                /\ UpdateMetrics("jobs_failed")
                /\ UNCHANGED <<pending, hist>>
    /\ SetReaper(r, [reaper[r] EXCEPT !.pc = "f_save"])
    /\ UNCHANGED <<store, expiry, processing, completed, now, settings, prod, loop, tasks, enqOrder, before, proc, purger, lifecycle, pipeline>>

\* fail_job, queue_service.py 200, then the next stuck job.
ReapFailSave(r) ==
    /\ ReaperStep(r, "f_save")
    /\ Setex(Head(reaper[r].todo), reaper[r].data)
    /\ SetReaper(r, ReaperNext(Tail(reaper[r].todo), reaper[r].seen))
    /\ UNCHANGED <<pending, processing, completed, failed, now, settings, prod, loop, tasks, enqOrder, hist, before, proc, purger, lifecycle, metrics, pipeline>>

\* -------------------------------------------------------- cleanup_old_jobs
PurgerStep(pc) ==
    /\ purger.pc = pc
    /\ CanStep(<<"purger", 0, 0>>)

\* What follows the three commands for one id (lines 275-281): the next id,
\* or the end of the sweep.
PurgerNext(todo) ==
    IF todo = <<>> THEN IdlePurger
    ELSE [pc |-> "delete", todo |-> todo, days |-> purger.days]

\* queue_service.py 252-264: cleanup_old_jobs(days_old) up to
\* zrangebyscore(completed, 0, cutoff).
SweepCompleted(days) ==
    /\ PurgerStep("idle")
    /\ purger' = [pc |-> "scan_failed",
                  todo |-> ZRangeByScore(completed, 0, Cutoff(days)),
                  days |-> days]
    /\ before' = Snapshot
    /\ UNCHANGED <<redis, now, settings, prod, loop, proc, tasks, reaper, enqOrder, hist, lifecycle, metrics, pipeline>>

\* lifecycle_manager.py 139: the scheduled sweep, cleanup_old_jobs(7).
PurgeScanCompleted == SweepCompleted(old_job_days)

\* routes/processing.py 68-79: the sweep of the maintenance endpoint, with
\* the days_old of the request, any integer the caller gives.
AdminWindows == 0..old_job_days

PurgeScanCompletedAdmin == \E days \in AdminWindows : SweepCompleted(days)

\* queue_service.py 266-275: zrangebyscore(failed, 0, cutoff); the sweep goes
\* over old_completed + old_failed.
PurgeScanFailed ==
    /\ PurgerStep("scan_failed")
    /\ purger' = PurgerNext(purger.todo
                            \o ZRangeByScore(failed, 0, Cutoff(purger.days)))
    /\ UNCHANGED <<redis, now, settings, prod, loop, proc, tasks, reaper, enqOrder, hist, before, lifecycle, metrics, pipeline>>

\* queue_service.py 277: delete the record.
PurgeDelete ==
    /\ PurgerStep("delete")
    /\ store' = [store EXCEPT ![Head(purger.todo)] = NoRec]
    /\ expiry' = [expiry EXCEPT ![Head(purger.todo)] = NoExpiry]
    /\ purger' = [purger EXCEPT !.pc = "zrem_completed"]
    /\ UNCHANGED <<pending, processing, completed, failed, now, settings, prod, loop, proc, tasks, reaper, enqOrder, hist, before, lifecycle, metrics, pipeline>>

\* queue_service.py 279.
PurgeZremCompleted ==
    /\ PurgerStep("zrem_completed")
    /\ completed' = ZRem(completed, Head(purger.todo))
    /\ purger' = [purger EXCEPT !.pc = "zrem_failed"]
    /\ UNCHANGED <<store, expiry, pending, processing, failed, now, settings, prod, loop, proc, tasks, reaper, enqOrder, hist, before, lifecycle, metrics, pipeline>>

\* queue_service.py 280-281, then the next id.
PurgeZremFailed ==
    /\ PurgerStep("zrem_failed")
    /\ failed' = ZRem(failed, Head(purger.todo))
    /\ purger' = PurgerNext(Tail(purger.todo))
    /\ UNCHANGED <<store, expiry, pending, processing, completed, now, settings, prod, loop, proc, tasks, reaper, enqOrder, hist, before, lifecycle, metrics, pipeline>>

\* ------------------------------------------------ a Redis command raises
\* No queue call catches a Redis error: the call ends where the command
\* raised, with the commands before it applied.

\* queue_document_processing: zadd (line 92) raises to the caller.
EnqueueError ==
    /\ prod.pc = "zadd"
    /\ CanStep(<<"producer", 0, 0>>)
    /\ prod' = IdleProd
    /\ UNCHANGED <<redis, now, settings, loop, tasks, reaper, enqOrder, hist, before, proc, purger, lifecycle, metrics, pipeline>>

\* LoopError with no handler in the loop: the error ends _processing_loop.
LoopErrorUncaught(w) ==
    /\ loop[w].pc \in {"zrem", "zadd", "get", "save"}
    /\ CanStep(<<"loop", w, 0>>)
    /\ loop' = [loop EXCEPT ![w] = [IdleLoop EXCEPT !.pc = "ended"]]
    /\ UNCHANGED <<redis, now, settings, prod, tasks, reaper, enqOrder, hist, before, proc, purger, lifecycle, metrics, pipeline>>

\* get_next_job: a command after zrange raises; _processing_loop catches the
\* error and sleeps 10 s (processing_worker.py 85-87).
LoopError(w) ==
    /\ loop[w].pc \in {"zrem", "zadd", "get", "save"}
    /\ CanStep(<<"loop", w, 0>>)
    /\ loop' = [loop EXCEPT ![w] = [IdleLoop EXCEPT !.pc = "backoff"]]
    /\ UNCHANGED <<redis, now, settings, prod, tasks, reaper, enqOrder, hist, before, proc, purger, lifecycle, metrics, pipeline>>

\* processing_worker.py 87 and 68: the sleep after an error ends and the loop
\* is back at its while test.
LoopWake(w) ==
    /\ loop[w].pc = "backoff"
    /\ loop' = [loop EXCEPT ![w] = IdleLoop]
    /\ UNCHANGED <<redis, now, settings, prod, tasks, reaper, enqOrder, hist, before, proc, purger, lifecycle, metrics, pipeline>>

\* complete_job: a command after the first zrem raises; the except branch of
\* _process_job calls fail_job (processing_worker.py 109-113).
CompleteError(w, s) ==
    /\ tasks[w][s].pc \in {"c_zadd", "c_get", "c_save"}
    /\ CanStep(<<"task", w, s>>)
    /\ SetTask(w, s, [tasks[w][s] EXCEPT !.pc = "f_zrem", !.msg = "store",
                                         !.data = NoRec])
    /\ hist' = Bump(tasks[w][s].job, "failed_execs")
    /\ UNCHANGED <<redis, now, settings, prod, loop, reaper, enqOrder, before, proc, purger, lifecycle, metrics, pipeline>>

\* fail_job called by _process_job: a command after the zrem raises, the
\* error leaves the task.
TaskFailError(w, s) ==
    /\ tasks[w][s].pc \in {"f_get", "f_zadd", "f_save"}
    /\ CanStep(<<"task", w, s>>)
    /\ SetTask(w, s, [FreeTask EXCEPT !.pc = "done"])
    /\ UNCHANGED <<redis, now, settings, prod, loop, reaper, enqOrder, hist, before, proc, purger, lifecycle, metrics, pipeline>>

\* fail_job called by cleanup_stuck_jobs: the error ends the run
\* (queue_service.py 241-247 has no handler).
ReapError(r) ==
    /\ reaper[r].pc \in {"f_get", "f_zadd", "f_save"}
    /\ CanStep(<<"reaper", r, 0>>)
    /\ SetReaper(r, IdleReaper)
    /\ UNCHANGED <<redis, now, settings, prod, loop, tasks, enqOrder, hist, before, proc, purger, lifecycle, metrics, pipeline>>

\* ------------------------------------------------------ _process_document
\* One run of _process_document (processing_worker.py 115-173), a step per
\* stage. A score is an integer counting 1/ScoreUnit, so 1.0 is ScoreUnit.
ScoreUnit == 200000

\* Confidences an inference endpoint reports: 0, 0.33333, 0.5, 0.7 and 1.
Confidences == {0, 66666, 100000, 140000, 200000}

\* len(text) of the text an extraction returns.
TextLengths == {0, 99, 100, 400, 1000, MaxTextLength}

UnknownTypes == {"other", "unknown"}

MedicalTypes == {"medical_report", "prescription", "laboratory_result"}

\* _classify_document, lines 178-195: the JSON of /classify, or on any error
\* the fallback of type "other" with confidence 0.
ClassificationResults ==
    {[present |-> TRUE, document_type |-> t, confidence |-> c, error |-> FALSE] :
        t \in DocumentTypes, c \in Confidences}
    \cup {[present |-> TRUE, document_type |-> "other", confidence |-> 0,
           error |-> TRUE]}

\* _extract_text, lines 200-221: the JSON of /extract-text (its "text" a
\* string, or null), or on any error the fallback with no text and confidence 0.
ExtractionResults ==
    {[present |-> TRUE, text_length |-> n, text_null |-> FALSE, confidence |-> c,
      error |-> FALSE] : n \in TextLengths, c \in Confidences}
    \cup {[present |-> TRUE, text_length |-> 0, text_null |-> TRUE, confidence |-> c,
           error |-> FALSE] : c \in {140000}}
    \cup {[present |-> TRUE, text_length |-> 0, text_null |-> FALSE, confidence |-> 0,
           error |-> TRUE]}

\* _extract_medical_entities, lines 226-247: the JSON of /extract-entities, or
\* on any error the fallback with no entity and confidence 0.
EntityResults ==
    {[present |-> TRUE, confidence |-> c, error |-> FALSE] : c \in Confidences}
    \cup {[present |-> TRUE, confidence |-> 0, error |-> TRUE]}

Min(a, b) == IF a <= b THEN a ELSE b

\* round(x, 4): to the nearest multiple of 0.0001, a tie to the even one.
Round4(x) ==
    LET q == ScoreUnit \div 10000
        r == x % q
        down == x - r
    IN  IF 2 * r < q THEN down
        ELSE IF 2 * r > q THEN down + q
        ELSE IF (down \div q) % 2 = 0 THEN down ELSE down + q

\* line 258: min(1.0, (text_length / 1000) * 0.5 + extraction_confidence * 0.5).
QualityScore(text_length, extraction_confidence) ==
    Min(ScoreUnit, (text_length * (ScoreUnit \div 1000)) \div 2
                   + extraction_confidence \div 2)

\* lines 260-264.
QualityIssues(text_length, extraction_confidence) ==
    (IF text_length < 100 THEN {"Low text content"} ELSE {})
    \cup (IF 10 * extraction_confidence < 7 * ScoreUnit
          THEN {"Low extraction confidence"} ELSE {})

\* line 271.
Assessment(quality_score) ==
    IF 10 * quality_score >= 7 * ScoreUnit THEN "good"
    ELSE IF 10 * quality_score >= 5 * ScoreUnit THEN "fair"
    ELSE "poor"

\* _assess_quality, lines 252-280: len() of a null text raises, and the
\* handler returns the score 0.0 with the assessment "unknown".
AssessQuality(extraction_result) ==
    IF extraction_result.text_null
    THEN [present |-> TRUE, quality_score |-> 0, assessment |-> "unknown",
          quality_issues |-> {}, error |-> TRUE]
    ELSE LET text_length == extraction_result.text_length
             extraction_confidence == extraction_result.confidence
             quality_score == QualityScore(text_length, extraction_confidence)
         IN  [present |-> TRUE, quality_score |-> Round4(quality_score),
              assessment |-> Assessment(quality_score),
              quality_issues |-> QualityIssues(text_length, extraction_confidence),
              error |-> FALSE]

\* lines 285-301: the scores of the keys the result holds.
Scores(result) ==
    (IF result.classification.present
     THEN <<result.classification.confidence>> ELSE <<>>)
    \o (IF result.text_extraction.present
        THEN <<result.text_extraction.confidence>> ELSE <<>>)
    \o (IF result.entity_extraction.present
        THEN <<result.entity_extraction.confidence>> ELSE <<>>)
    \o (IF result.quality_assessment.present
        THEN <<result.quality_assessment.quality_score>> ELSE <<>>)

RECURSIVE Sum(_)
Sum(scores) == IF scores = <<>> THEN 0 ELSE Head(scores) + Sum(Tail(scores))

\* CalculateConfidenceScore leaving the scores of 0.0 out of the mean.
CalculateConfidenceScoreNonZero(result) ==
    LET scores == SelectSeq(Scores(result), LAMBDA x : x # 0)
    IN  IF scores # <<>> THEN [num |-> Sum(scores), den |-> Len(scores)] ELSE Zero

\* _calculate_confidence_score, line 304: sum(scores) / len(scores), or 0.0.
CalculateConfidenceScore(result) ==
    LET scores == Scores(result)
    IN  IF scores # <<>> THEN [num |-> Sum(scores), den |-> Len(scores)] ELSE Zero

PipelineStep(pc) == pipeline.pc = pc

QueueUnchanged ==
    UNCHANGED <<redis, now, settings, prod, loop, proc, tasks, reaper, purger,
                enqOrder, hist, before, lifecycle, metrics>>

\* lines 118-136: get_file_info raises for a missing artifact (file_storage.py
\* 150-151); else the result is set up and the first stage chosen by the type
\* the job was submitted with.
GetFileInfo ==
    /\ PipelineStep("start")
    /\ \E exists \in BOOLEAN :
          pipeline' = [pipeline EXCEPT
              !.pc = IF ~exists THEN "raised"
                     ELSE IF pipeline.document_type \in UnknownTypes
                          THEN "classify" ELSE "extract_text"]
    /\ QueueUnchanged

\* lines 137-139.
ClassifyDocument ==
    /\ PipelineStep("classify")
    /\ \E classification_result \in ClassificationResults :
          pipeline' = [pipeline EXCEPT
              !.pc = "extract_text",
              !.result.classification = classification_result,
              !.result.steps_completed = Append(@, "document_classification")]
    /\ QueueUnchanged

\* lines 142-147: text extraction, then the choice of entity extraction by
\* job.document_type.
ExtractText ==
    /\ PipelineStep("extract_text")
    /\ \E extraction_result \in ExtractionResults :
          pipeline' = [pipeline EXCEPT
              !.pc = IF pipeline.document_type \in MedicalTypes
                     THEN "extract_entities" ELSE "assess_quality",
              !.result.text_extraction = extraction_result,
              !.result.steps_completed = Append(@, "text_extraction")]
    /\ QueueUnchanged

\* lines 148-153.
ExtractMedicalEntities ==
    /\ PipelineStep("extract_entities")
    /\ \E entity_result \in EntityResults :
          pipeline' = [pipeline EXCEPT
              !.pc = "assess_quality",
              !.result.entity_extraction = entity_result,
              !.result.steps_completed = Append(@, "entity_extraction")]
    /\ QueueUnchanged

\* lines 156-158.
QualityAssessment ==
    /\ PipelineStep("assess_quality")
    /\ pipeline' = [pipeline EXCEPT
           !.pc = "confidence",
           !.result.quality_assessment = AssessQuality(pipeline.result.text_extraction),
           !.result.steps_completed = Append(@, "quality_assessment")]
    /\ QueueUnchanged

\* lines 161-173: the overall confidence, and the result is returned.
ReturnResult ==
    /\ PipelineStep("confidence")
    /\ pipeline' = [pipeline EXCEPT
           !.pc = "returned",
           !.result.confidence_score = CalculateConfidenceScore(pipeline.result)]
    /\ QueueUnchanged

\* ---------------------------------------------------- FileLifecycleManager
\* Time of the schedule is counted in passes of the tick loop (one per 60 s
\* sleep); the periods keep their order: hour < 6 hours < day < week.
MaxTicks == 4

Every(t) ==
    CASE t = "temp_file_cleanup" -> 1
      [] t = "stuck_job_cleanup" -> 2
      [] t = "retention_policy_enforcement" -> 3
      [] t = "old_job_cleanup" -> 3
      [] t = "archive_cleanup" -> 4

\* The jobs at a fixed hour of the day (02:00, 03:00) first run within a day
\* of the start; the others one period after it.
FirstRuns(t) ==
    IF t \in {"retention_policy_enforcement", "old_job_cleanup"}
    THEN 1..Every(t) ELSE {Every(t)}

\* lifecycle_manager.py 28-44: start_scheduler up to its first sleep; no job
\* is due at the start.
StartScheduler ==
    /\ sched.pc = "constructed"
    /\ \E first \in [MaintenanceTasks -> 1..MaxTicks] :
          /\ \A t \in MaintenanceTasks : first[t] \in FirstRuns(t)
          /\ sched' = [pc |-> "sleeping", is_running |-> TRUE, clock |-> 0,
                       next_run |-> first]
    /\ UNCHANGED <<redis, now, settings, prod, loop, proc, tasks, reaper, purger,
                   enqOrder, hist, before, units, metrics, pipeline>>

\* lifecycle_manager.py 48-50: stop_scheduler.
StopScheduler ==
    /\ sched.is_running
    /\ sched' = [sched EXCEPT !.is_running = FALSE]
    /\ UNCHANGED <<redis, now, settings, prod, loop, proc, tasks, reaper, purger,
                   enqOrder, hist, before, units, metrics, pipeline>>

Due(t, clock) == sched.next_run[t] <= clock

\* SchedulerPass without the test of is_running at the top of the loop.
SchedulerPassUnstoppable ==
    /\ sched.pc = "sleeping"
    /\ sched.clock < MaxTicks
    /\ LET clock == sched.clock + 1
       IN  /\ sched' = [sched EXCEPT
                           !.clock = clock,
                           !.next_run = [t \in MaintenanceTasks |->
                                            IF Due(t, clock) THEN clock + Every(t)
                                            ELSE sched.next_run[t]]]
           /\ units' = [t \in MaintenanceTasks |->
                           IF Due(t, clock)
                           THEN [units[t] EXCEPT !.running = @ + 1]
                           ELSE units[t]]
    /\ UNCHANGED <<redis, now, settings, prod, loop, proc, tasks, reaper, purger,
                   enqOrder, hist, before, metrics, pipeline>>

\* lifecycle_manager.py 42-44 and 52-70: the sleep ends, is_running holds,
\* and run_pending calls the _schedule_* function of every due job, which
\* creates the task of the run and returns; the job is set to its next period.
SchedulerPass ==
    /\ sched.pc = "sleeping"
    /\ sched.is_running
    /\ sched.clock < MaxTicks
    /\ LET clock == sched.clock + 1
       IN  /\ sched' = [sched EXCEPT
                           !.clock = clock,
                           !.next_run = [t \in MaintenanceTasks |->
                                            IF Due(t, clock) THEN clock + Every(t)
                                            ELSE sched.next_run[t]]]
           /\ units' = [t \in MaintenanceTasks |->
                           IF Due(t, clock)
                           THEN [units[t] EXCEPT !.running = @ + 1]
                           ELSE units[t]]
    /\ UNCHANGED <<redis, now, settings, prod, loop, proc, tasks, reaper, purger,
                   enqOrder, hist, before, metrics, pipeline>>

\* lifecycle_manager.py 42 and 46: the sleep ends and is_running is false.
SchedulerExit ==
    /\ sched.pc = "sleeping"
    /\ ~sched.is_running
    /\ sched' = [sched EXCEPT !.pc = "exited"]
    /\ UNCHANGED <<redis, now, settings, prod, loop, proc, tasks, reaper, purger,
                   enqOrder, hist, before, units, metrics, pipeline>>

\* Whether the call a task makes inside its try block can raise. The store
\* and the file system may fail or not; `async with get_db()` (line 169)
\* always raises, get_db being an async generator function.
InnerRaises(t) ==
    IF t = "retention_policy_enforcement" THEN {TRUE} ELSE BOOLEAN

\* How a run ends if nothing catches the error of the inner call.
OutcomeUncaught(raised) == IF raised THEN "raised" ELSE "completed"

\* lifecycle_manager.py 77-100, 107-130, 137-158, 165-214, 221-253: the
\* status of the outcome a run returns.
Outcome(raised) == IF raised THEN "failed" ELSE "completed"

\* A run of cleanup_temp_files, cleanup_stuck_jobs, enforce_retention_policies,
\* cleanup_old_jobs or cleanup_archives ends, however long it took.
UnitReturn(t) ==
    /\ units[t].running > 0
    /\ \E raised \in InnerRaises(t) :
          units' = [units EXCEPT ![t].running = @ - 1,
                                 ![t][Outcome(raised)] = @ + 1]
    /\ UNCHANGED <<redis, now, settings, prod, loop, proc, tasks, reaper, purger,
                   enqOrder, hist, before, sched, metrics, pipeline>>

\* ------------------------------------------------------------------ time
\* Redis drops a key once its TTL has run out.
Expired(j, t) == expiry[j] # NoExpiry /\ expiry[j] <= t

Tick ==
    /\ now < horizon
    /\ CanStep(<<"clock", 0, 0>>)
    /\ now' = now + 1
    /\ store' = [j \in Jobs |-> IF Expired(j, now + 1) THEN NoRec ELSE store[j]]
    /\ expiry' = [j \in Jobs |-> IF Expired(j, now + 1) THEN NoExpiry ELSE expiry[j]]
    /\ UNCHANGED <<pending, processing, completed, failed, settings, prod, loop,
                   tasks, reaper, enqOrder, hist, before, proc, purger, lifecycle, metrics, pipeline>>

Enqueue ==
    \/ \E j \in Jobs, p \in Priorities : EnqueueSetex(j, p)
    \/ EnqueueZadd

GetNextJob ==
    \/ \E w \in workers : LoopZrange(w)
    \/ \E w \in workers : LoopZrem(w)
    \/ \E w \in workers : LoopZadd(w)
    \/ \E w \in workers : LoopGet(w)
    \/ \E w \in workers : LoopSave(w)

TaskFail ==
    \/ \E w \in workers, s \in Slots : TaskRaise(w, s)
    \/ \E w \in workers, s \in Slots : TaskFailZrem(w, s)
    \/ \E w \in workers, s \in Slots : TaskFailGet(w, s)
    \/ \E w \in workers, s \in Slots : TaskFailZadd(w, s)
    \/ \E w \in workers, s \in Slots : TaskFailSave(w, s)

TaskComplete ==
    \/ \E w \in workers, s \in Slots : TaskSucceed(w, s)
    \/ \E w \in workers, s \in Slots : CompleteZrem(w, s)
    \/ \E w \in workers, s \in Slots : CompleteZadd(w, s)
    \/ \E w \in workers, s \in Slots : CompleteGet(w, s)
    \/ \E w \in workers, s \in Slots : CompleteSave(w, s)

\* Reached only when complete_job found no record to save.
MoveToProcessed ==
    \/ \E w \in workers, s \in Slots : MoveOk(w, s)
    \/ \E w \in workers, s \in Slots : MoveFail(w, s)

CleanupStuckJobs ==
    \/ \E r \in reapers : ReapScan(r)
    \/ \E r \in reapers : ReapFailZrem(r)
    \/ \E r \in reapers : ReapFailGet(r)
    \/ \E r \in reapers : ReapFailZadd(r)
    \/ \E r \in reapers : ReapFailSave(r)

Next ==
    \/ Enqueue
    \/ GetNextJob
    \/ TaskFail
    \/ TaskComplete
    \/ CleanupStuckJobs
    \/ Tick

Spec == Init /\ [][Next]_vars

\* Every QueueService call runs uninterrupted (calls are sequential); tasks,
\* the reaper and the producer still take turns between calls.
InitSeq ==
    /\ InitCommon
    /\ retry_attempts \in 0..MaxRetries
    /\ max_concurrent_jobs = Cardinality(Slots)
    /\ njobs = MaxJobs
    /\ workers = {1}
    /\ atomic = TRUE
    /\ track = FALSE
    /\ horizon = MaxTime
    /\ reapers = {1}

SpecSeq == InitSeq /\ [][Next]_vars

\* The retry scenario: max_retries = 2, every execution raises, nothing is
\* reaped, calls are sequential.
InitRetry ==
    /\ InitCommon
    /\ retry_attempts = 2
    /\ max_concurrent_jobs = Cardinality(Slots)
    /\ njobs = MaxJobs
    /\ workers = {1}
    /\ atomic = TRUE
    /\ track = TRUE
    /\ horizon = MaxTime
    /\ reapers = {1}

NextFailing ==
    \/ Enqueue
    \/ GetNextJob
    \/ TaskFail

NextQueue ==
    \/ Enqueue
    \/ GetNextJob
    \/ TaskFail
    \/ TaskComplete

SpecQueue == InitSeq /\ [][NextQueue]_vars

SpecRetry == InitRetry /\ [][NextFailing]_vars

\* Sequential calls, every execution raises, any retry_attempts: what the
\* order of the pending index rests on.
SpecOrder == InitSeq /\ [][NextFailing]_vars

\* The long scenario: the clock runs past the TTL of a record, one worker,
\* sequential calls, the reaper runs.
InitLong ==
    /\ InitCommon
    /\ retry_attempts \in 0..MaxRetries
    /\ max_concurrent_jobs = Cardinality(Slots)
    /\ njobs = ConcJobs
    /\ workers = {1}
    /\ atomic = TRUE
    /\ track = TRUE
    /\ horizon = LongTime
    /\ reapers = {1}

NextLong ==
    \/ Enqueue
    \/ GetNextJob
    \/ TaskFail
    \/ TaskComplete
    \/ MoveToProcessed
    \/ CleanupStuckJobs
    \/ Tick

SpecTtl == InitLong /\ [][NextLong]_vars

\* The small-worker scenario: one worker of capacity 1, sequential calls,
\* more jobs than capacity, no reaper.
InitCap ==
    /\ InitCommon
    /\ retry_attempts \in 0..MaxRetries
    /\ max_concurrent_jobs = 1
    /\ njobs = MaxJobs
    /\ workers = {1}
    /\ atomic = TRUE
    /\ track = FALSE
    /\ horizon = MaxTime
    /\ reapers = {1}

SpecCap == InitCap /\ [][NextQueue]_vars

\* One step of the executor task in slot s of worker w.
TaskRun(w, s) ==
    \/ TaskSucceed(w, s) \/ TaskRaise(w, s)
    \/ CompleteZrem(w, s) \/ CompleteZadd(w, s) \/ CompleteGet(w, s)
    \/ CompleteSave(w, s) \/ MoveOk(w, s) \/ MoveFail(w, s)
    \/ TaskFailZrem(w, s) \/ TaskFailGet(w, s) \/ TaskFailZadd(w, s)
    \/ TaskFailSave(w, s)

\* The event loop runs every coroutine that can run: a call that began goes
\* on, the processing loop wakes from its sleep, every task takes its steps.
Fairness ==
    /\ WF_vars(EnqueueZadd)
    /\ WF_vars(GetNextJob)
    /\ \A w \in Workers, s \in Slots : WF_vars(TaskRun(w, s))

SpecCapFair == InitCap /\ [][NextQueue]_vars /\ Fairness

\* The shutdown scenario: one worker, sequential calls, no reaper; stop() may
\* be called at any time.
Stop ==
    \/ \E w \in workers : StopCall(w)
    \/ \E w \in workers : StopReturn(w)

NextStop ==
    \/ Enqueue
    \/ GetNextJob
    \/ TaskFail
    \/ TaskComplete
    \/ Stop

SpecStop == InitSeq /\ [][NextStop]_vars

\* The reaping scenario: every execution hangs, and two runs of
\* cleanup_stuck_jobs (the scheduler's and the admin endpoint's) interleave
\* with each other and with the worker.
InitReap ==
    /\ InitCommon
    /\ retry_attempts \in 0..MaxRetries
    /\ max_concurrent_jobs = Cardinality(Slots)
    /\ njobs = ConcJobs
    /\ workers = {1}
    /\ atomic = FALSE
    /\ track = TRUE
    /\ horizon = MaxTime
    /\ reapers = Reapers

NextReap ==
    \/ Enqueue
    \/ GetNextJob
    \/ CleanupStuckJobs
    \/ Tick

SpecReap == InitReap /\ [][NextReap]_vars

\* The purge scenario: the long clock, one worker, sequential calls, and
\* sweeps of cleanup_old_jobs.
CleanupOldJobs ==
    \/ PurgeScanCompleted
    \/ PurgeScanFailed
    \/ PurgeDelete
    \/ PurgeZremCompleted
    \/ PurgeZremFailed

NextPurge ==
    \/ Enqueue
    \/ GetNextJob
    \/ TaskFail
    \/ TaskComplete
    \/ MoveToProcessed
    \/ CleanupOldJobs
    \/ Tick

SpecPurge == InitLong /\ [][NextPurge]_vars

\* The faulty-store scenario: one worker, sequential calls, and any Redis
\* command inside a queue call may raise.
InitFault ==
    /\ InitCommon
    /\ retry_attempts \in 0..MaxRetries
    /\ max_concurrent_jobs = Cardinality(Slots)
    /\ njobs = ConcJobs
    /\ workers = {1}
    /\ atomic = TRUE
    /\ track = TRUE
    /\ horizon = MaxTime
    /\ reapers = {1}

StoreError ==
    \/ EnqueueError
    \/ \E w \in workers : LoopError(w)
    \/ \E w \in workers, s \in Slots : CompleteError(w, s)
    \/ \E w \in workers, s \in Slots : TaskFailError(w, s)
    \/ \E r \in reapers : ReapError(r)

Backoff == \E w \in workers : LoopWake(w)

NextFault ==
    \/ Enqueue
    \/ GetNextJob
    \/ TaskFail
    \/ TaskComplete
    \/ CleanupStuckJobs
    \/ Tick
    \/ StoreError
    \/ Backoff

SpecFault == InitFault /\ [][NextFault]_vars

\* The maintenance scenario: the lifecycle manager alone, its tick loop and
\* the runs it creates.
InitSched ==
    /\ InitCommon
    /\ retry_attempts = 0
    /\ max_concurrent_jobs = 1
    /\ njobs = ConcJobs
    /\ workers = {1}
    /\ atomic = TRUE
    /\ track = FALSE
    /\ horizon = MaxTime
    /\ reapers = {1}

NextSched ==
    \/ StartScheduler
    \/ SchedulerPass
    \/ SchedulerExit
    \/ StopScheduler
    \/ \E t \in MaintenanceTasks : UnitReturn(t)

SpecSched == InitSched /\ [][NextSched]_vars

\* The event loop resumes start_scheduler when its sleep is over.
SpecSchedFair == InitSched /\ [][NextSched]_vars /\ WF_vars(SchedulerExit)

\* The expiry scenario: the long clock, one worker of capacity 1, sequential
\* calls, every job with max_retries = MaxRetries, the reaper runs.
InitExpiry ==
    /\ InitCommon
    /\ retry_attempts = MaxRetries
    /\ max_concurrent_jobs = 1
    /\ njobs = ConcJobs
    /\ workers = {1}
    /\ atomic = TRUE
    /\ track = FALSE
    /\ horizon = LongTime
    /\ reapers = {1}

SpecExpiry == InitExpiry /\ [][NextLong]_vars

\* The default-retry scenario: retry_attempts as config.py sets it, every
\* execution raises, nothing is reaped, calls are sequential.
default_retry_attempts == 3

InitDecay ==
    /\ InitCommon
    /\ retry_attempts = default_retry_attempts
    /\ max_concurrent_jobs = Cardinality(Slots)
    /\ njobs = MaxJobs
    /\ workers = {1}
    /\ atomic = TRUE
    /\ track = TRUE
    /\ horizon = MaxTime
    /\ reapers = {1}

SpecDecay == InitDecay /\ [][NextFailing]_vars

\* The maintenance-endpoint scenario: one worker, sequential calls, and
\* sweeps of cleanup_old_jobs asked for with any window.
CleanupOldJobsAdmin ==
    \/ PurgeScanCompletedAdmin
    \/ PurgeScanFailed
    \/ PurgeDelete
    \/ PurgeZremCompleted
    \/ PurgeZremFailed

NextAdmin ==
    \/ Enqueue
    \/ GetNextJob
    \/ TaskFail
    \/ TaskComplete
    \/ MoveToProcessed
    \/ CleanupOldJobsAdmin
    \/ Tick

SpecAdmin == InitFault /\ [][NextAdmin]_vars

\* The backoff scenario: one worker with room for two tasks, sequential
\* calls, every execution raises; a command of get_next_job may raise, and
\* the event loop runs every coroutine that can run.
InitBackoff ==
    /\ InitCommon
    /\ retry_attempts = 1
    /\ max_concurrent_jobs = Cardinality(Slots)
    /\ njobs = MaxJobs
    /\ workers = {1}
    /\ atomic = TRUE
    /\ track = FALSE
    /\ horizon = MaxTime
    /\ reapers = {1}

GetNextJobError == \E w \in workers : LoopError(w)

NextBackoff ==
    \/ Enqueue
    \/ GetNextJob
    \/ GetNextJobError
    \/ Backoff
    \/ TaskFail

LoopFairness ==
    /\ Fairness
    /\ \A w \in Workers : WF_vars(LoopWake(w))

SpecBackoff == InitBackoff /\ [][NextBackoff]_vars /\ LoopFairness

\* The late-failure scenario: one worker of capacity 1 and the reaper,
\* interleaving at every Redis command, over the long clock; the job has
\* max_retries = MaxRetries.
InitMove ==
    /\ InitCommon
    /\ retry_attempts = MaxRetries
    /\ max_concurrent_jobs = 1
    /\ njobs = ConcJobs
    /\ workers = {1}
    /\ atomic = FALSE
    /\ track = FALSE
    /\ horizon = LongTime
    /\ reapers = {1}

SpecMove == InitMove /\ [][NextLong]_vars

\* The racing scenario: one worker with room for two tasks and the reaper,
\* interleaving at every Redis command; the job has max_retries = MaxRetries.
InitRace ==
    /\ InitCommon
    /\ retry_attempts = MaxRetries
    /\ max_concurrent_jobs = Cardinality(Slots)
    /\ njobs = ConcJobs
    /\ workers = {1}
    /\ atomic = FALSE
    /\ track = TRUE
    /\ horizon = MaxTime
    /\ reapers = {1}

SpecRace == InitRace /\ [][Next]_vars

\* The pipeline scenario: one run of _process_document for a job of any
\* submitted type, the queue idle.
InitPipeline ==
    /\ InitBackbone
    /\ retry_attempts = 0
    /\ max_concurrent_jobs = 1
    /\ njobs = ConcJobs
    /\ workers = {1}
    /\ atomic = TRUE
    /\ track = FALSE
    /\ horizon = MaxTime
    /\ reapers = {1}
    /\ \E document_type \in DocumentTypes :
          pipeline = [NoPipeline EXCEPT !.pc = "start",
                                        !.document_type = document_type]

NextPipeline ==
    \/ GetFileInfo
    \/ ClassifyDocument
    \/ ExtractText
    \/ ExtractMedicalEntities
    \/ QualityAssessment
    \/ ReturnResult

SpecPipeline == InitPipeline /\ [][NextPipeline]_vars

\* ------------------------------------------------------------------ claims
InIndex(zs, j) == j \in DOMAIN zs

Indices(j) ==
    {n \in {"pending", "processing", "completed", "failed"} :
        \/ n = "pending" /\ InIndex(pending, j)
        \/ n = "processing" /\ InIndex(processing, j)
        \/ n = "completed" /\ InIndex(completed, j)
        \/ n = "failed" /\ InIndex(failed, j)}

Terminal(status) == status \in {"completed", "failed"}

\* A task that has been started and has not finished.
Running(w, s) == tasks[w][s].pc \notin {"free", "done"}

\* The place of job j in the order of enqueueing (0: not enqueued yet).
EnqPos(j) ==
    IF \E i \in 1..Len(enqOrder) : enqOrder[i] = j
    THEN CHOOSE i \in 1..Len(enqOrder) : enqOrder[i] = j
    ELSE 0

\* The priority job j was last inserted into pending with: the priority given
\* at enqueue, one less once it has been requeued for a retry.
QueuedPriority(j) ==
    IF store[j].retry_count = 0 THEN store[j].priority ELSE store[j].priority - 1

\* C1: no job id is handed to two concurrent callers of get_next_job: two
\* calls that have both read the job's record and are about to return it
\* never hold the same job id.
C1_NoDoubleDequeue ==
    \A w1 \in Workers, w2 \in Workers :
        (w1 # w2 /\ loop[w1].pc = "save" /\ loop[w2].pc = "save")
            => loop[w1].jid # loop[w2].jid

\* C2: once a record's status is Completed or Failed, no step changes it
\* (terminal immutability).
C2_TerminalImmutable ==
    [][\A j \in Jobs :
          (Terminal(store[j].status) /\ store'[j] # NoRec)
              => store'[j].status = store[j].status]_vars

\* C3: every change of a record's status is Queued->Processing,
\* Processing->Completed, Processing->Queued or Processing->Failed, and a
\* record that stays Queued keeps its retry_count.
C3_TransitionsAllowed ==
    [][\A j \in Jobs :
          /\ store'[j].status # store[j].status
                => <<store[j].status, store'[j].status>> \in
                      {<<"absent", "queued">>, <<"queued", "processing">>,
                       <<"processing", "completed">>, <<"processing", "queued">>,
                       <<"processing", "failed">>}
          /\ (store[j].status = "queued" /\ store'[j].status = "queued")
                => store'[j].retry_count = store[j].retry_count]_vars

\* C4: a job id is a member of at most one of the four indices.
C4_AtMostOneIndex == \A j \in Jobs : Cardinality(Indices(j)) <= 1

\* C5: between queue calls, an id in the in-flight index has status
\* Processing and an id in the pending index has status Queued.
C5_IndexMatchesStatus ==
    Busy = {} =>
        \A j \in Jobs :
            /\ InIndex(processing, j) => store[j].status = "processing"
            /\ InIndex(pending, j) => store[j].status = "queued"

\* C6: a job whose status is not Failed has retry_count <= max_retries, and
\* a job that is Queued again after a failure has retry_count < max_retries.
C6_RetryCountBounded ==
    \A j \in Jobs :
        /\ store[j].status \in {"queued", "processing", "completed"}
              => store[j].retry_count <= store[j].max_retries
        /\ (store[j].status = "queued" /\ store[j].retry_count > 0)
              => store[j].retry_count < store[j].max_retries

\* C7 (as claimed): a job with max_retries = 2 whose every execution fails has
\* ended Failed only after three failed executions and two requeues, with
\* retry_count = 2.
C7_ThreeFailuresTwoRequeues ==
    \A j \in Jobs :
        (store[j].status = "failed" /\ store[j].max_retries = 2)
            => /\ hist[j].failed_execs = 3
               /\ hist[j].requeues = 2
               /\ store[j].retry_count = 2

\* C7 (amended): a job with max_retries = 2 whose every execution fails is
\* executed at most twice and requeued at most once, its retry_count never
\* exceeds 2, and when it is Failed it has failed twice, was requeued exactly
\* once and has retry_count = 2.
C7_TwoFailuresOneRequeue ==
    \A j \in Jobs :
        /\ store[j].retry_count <= 2
        /\ hist[j].failed_execs <= 2
        /\ hist[j].requeues <= 1
        /\ store[j].status = "failed"
              => /\ hist[j].failed_execs = 2
                 /\ hist[j].requeues = 1
                 /\ store[j].retry_count = 2

\* C7 witness: a job of the scenario has ended Failed.
C7_Witness ==
    \E j \in Jobs :
        /\ store[j].status = "failed"
        /\ store[j].max_retries = 2
        /\ InIndex(failed, j)

\* C8: with sequential calls, the job get_next_job takes from pending has the
\* highest queued priority of all pending jobs.
C8_PriorityOrder ==
    \A w \in Workers :
        loop[w].pc = "zrem" =>
            \A j \in DOMAIN pending :
                QueuedPriority(loop[w].jid) >= QueuedPriority(j)

\* C8 witness: get_next_job takes a job over a pending job of lower priority
\* that was enqueued before it.
C8_Witness ==
    \E w \in Workers :
        /\ loop[w].pc = "zrem"
        /\ \E j \in DOMAIN pending :
              /\ QueuedPriority(j) < QueuedPriority(loop[w].jid)
              /\ EnqPos(j) < EnqPos(loop[w].jid)

\* C9: among pending jobs of equal priority that were never requeued,
\* get_next_job takes the one enqueued first.
C9_TieBreakFifo ==
    \A w \in Workers :
        (loop[w].pc = "zrem" /\ store[loop[w].jid].retry_count = 0) =>
            \A j \in DOMAIN pending :
                (pending[j] = pending[loop[w].jid] /\ store[j].retry_count = 0)
                    => EnqPos(loop[w].jid) <= EnqPos(j)

\* C10: at most one executor task that has not finished is bound to a job.
C10_OneExecutorPerJob ==
    \A p \in Workers \X Slots, q \in Workers \X Slots :
        (p # q /\ Running(p[1], p[2]) /\ Running(q[1], q[2]))
            => tasks[p[1]][p[2]].job # tasks[q[1]][q[2]].job

\* The record of job j can be read (get_job_status finds it).
Readable(j) == store[j] # NoRec

\* Job j has entered the pending index at some time.
Enqueued(j) == EnqPos(j) > 0

\* C11: between queue calls, every enqueued job is Completed or Failed (by
\* its record or by its index), or its record is readable and its id is in
\* the pending or the in-flight index.
C11_NoSilentLoss ==
    Busy = {} =>
        \A j \in Jobs :
            Enqueued(j) =>
                \/ Terminal(store[j].status)
                \/ InIndex(completed, j) \/ InIndex(failed, j)
                \/ Readable(j) /\ (InIndex(pending, j) \/ InIndex(processing, j))

\* C12: when a Redis command raises in the middle of a queue call, the
\* record and the four indices are as they were when the call began.
C12_FailedCallHasNoEffect == [][StoreError => redis' = before]_vars

\* The executor tasks of worker w that have been started and have not finished.
RunningTasks(w) == {s \in Slots : Running(w, s)}

\* C13: in one DocumentProcessor, the number of executor tasks started and
\* not finished is at most max_concurrent_jobs.
C13_BoundedConcurrency ==
    \A w \in Workers : Cardinality(RunningTasks(w)) <= max_concurrent_jobs

\* C13 witness: the worker is full (as many running tasks as its capacity,
\* fewer than it has room to track) while another job waits in pending.
C13_Witness ==
    \E w \in Workers :
        /\ Cardinality(RunningTasks(w)) = max_concurrent_jobs
        /\ max_concurrent_jobs < Cardinality(Slots)
        /\ DOMAIN pending # {}
        /\ loop[w].pc = "idle"

\* C14: whenever fewer than max_concurrent_jobs tasks of a running worker
\* are still running and a job is pending, the worker's loop eventually
\* calls get_next_job again and finds a job.
C14_IdleCapacityRefilled ==
    \A w \in Workers :
        (/\ w \in workers
         /\ Cardinality(RunningTasks(w)) < max_concurrent_jobs
         /\ DOMAIN pending # {})
            ~> (loop[w].pc = "zrem")

\* C15: once stop() has been called on a worker, no step takes a job out of
\* pending for it or starts a new executor task in it, and when stop() has
\* returned no executor task of the worker is still running.
C15_StopDrains ==
    [][\A w \in Workers :
          /\ ~proc[w].is_running =>
                /\ ~(loop[w].pc = "zrem" /\ loop'[w].pc = "zadd")
                /\ RunningTasks(w)' \subseteq RunningTasks(w)
          /\ proc'[w].stop = "returned" => RunningTasks(w)' = {}]_vars

\* C16: a run of cleanup_stuck_jobs that reaps a job leaves its retry_count
\* exactly one above what it was when the run found the job stuck, however
\* many runs found it.
C16_ReapedOnce ==
    [][\A r \in Reapers :
          (reaper[r].pc = "f_save" /\ reaper'[r].pc # "f_save")
              => LET j == Head(reaper[r].todo)
                 IN  store'[j].retry_count = reaper[r].seen[j] + 1]_vars

\* A call of fail_job by run r of cleanup_stuck_jobs returns in this step.
ReapReturns(r) ==
    /\ reaper[r].pc \in {"f_get", "f_save"}
    /\ reaper'[r].pc \notin {"f_get", "f_zadd", "f_save"}

\* C17: with sequential calls, when cleanup_stuck_jobs has dealt with a stuck
\* job, the job has left the in-flight index, its retry_count is one more
\* than it was, its error is the timeout, and it is Queued in pending if
\* retry_count < max_retries, otherwise Failed in the failed index.
C17_ReapLikeFailure ==
    [][\A r \in Reapers :
          ReapReturns(r) =>
              LET j == Head(reaper[r].todo)
              IN  /\ ~InIndex(processing', j)
                  /\ store'[j].retry_count = reaper[r].seen[j] + 1
                  /\ store'[j].error_message = "timeout"
                  /\ IF store'[j].retry_count < store'[j].max_retries
                     THEN store'[j].status = "queued" /\ InIndex(pending', j)
                     ELSE store'[j].status = "failed" /\ InIndex(failed', j)]_vars

\* A sweep of cleanup_old_jobs returns in this step.
PurgeReturns == purger.pc # "idle" /\ purger'.pc = "idle"

\* The completed index as the sweep found it.
CompletedBefore == before[5]

\* C18: with sequential calls, when a sweep of cleanup_old_jobs returns, a
\* job that was Completed at or before now - window has no record and is in
\* no index, and a job Completed later than that still has its record.
C18_PurgeBoundary ==
    [][PurgeReturns =>
          \A j \in DOMAIN CompletedBefore :
              IF CompletedBefore[j] <= Cutoff(old_job_days)
              THEN ~Readable(j)' /\ Indices(j)' = {}
              ELSE Readable(j)']_vars

\* A task between the return of _process_document and the end of complete_job.
Completing(w, s) == tasks[w][s].pc \in {"c_zrem", "c_zadd", "c_get", "c_save"}

\* C19: a job whose execution returned a result (the artifact exists, every
\* inference call failed and was caught) is not handed to fail_job by its
\* executor, and its record is Completed when complete_job has returned.
C19_DegradedJobCompletes ==
    [][\A w \in Workers, s \in Slots :
          Completing(w, s) =>
              /\ tasks'[w][s].pc # "f_zrem"
              /\ ~Completing(w, s)' =>
                    store'[tasks[w][s].job].status = "completed"]_vars

\* C20: every run of a maintenance task ends with the status completed or
\* failed and never with an exception leaving it; the tick loop ends only
\* after stop_scheduler, and every pass of it creates a run of every task
\* that is due, whatever the earlier runs did or are still doing.
Fired(t) == units[t].running + units[t].completed + units[t].failed
            + units[t].raised

C20_TasksContained ==
    /\ [](\A t \in MaintenanceTasks : units[t].raised = 0)
    /\ [](sched.pc = "exited" => ~sched.is_running)
    /\ [][sched'.clock # sched.clock =>
             \A t \in MaintenanceTasks :
                Due(t, sched'.clock) => Fired(t)' = Fired(t) + 1]_vars

\* A run of the stuck-job reap of the first period is still under way, a run
\* of the temp cleanup has failed, and the pass of the last period has
\* created the run of the archive cleanup.
C20_Witness ==
    /\ sched.clock = MaxTicks
    /\ units["stuck_job_cleanup"].running = 2
    /\ units["temp_file_cleanup"].failed > 0
    /\ Fired("archive_cleanup") > 0

\* C21: a pending job that has been requeued k times is queued at its
\* enqueue priority minus k.
C21_RetryPriorityDecay ==
    \A j \in DOMAIN pending :
        -pending[j] = store[j].priority - hist[j].requeues

\* complete_job or fail_job, called by the executor in slot s, raises part-way.
HandlingFails(w, s) == CompleteError(w, s) \/ TaskFailError(w, s)

\* C22: when complete_job or fail_job raises part-way in an executor, the job
\* of that executor is in the in-flight index afterwards.
C22_FailedHandlingLeavesInFlight ==
    [][\A w \in Workers, s \in Slots :
          HandlingFails(w, s) => InIndex(processing', tasks[w][s].job)]_vars

\* get_next_job of worker w reads the record of the id it took and finds none.
DequeueMisses(w) ==
    /\ loop[w].pc = "get"
    /\ store[loop[w].jid] = NoRec
    /\ loop'[w].pc = "idle"

\* complete_job of the executor in slot s reads the record and finds none.
CompleteMisses(w, s) ==
    /\ tasks[w][s].pc = "c_get"
    /\ store[tasks[w][s].job] = NoRec
    /\ tasks'[w][s].pc = "move"

\* C23: when get_next_job or complete_job finds no record for the id it
\* handles, that id is in no index once the operation has returned.
C23_StaleIdEvicted ==
    [][/\ \A w \in Workers :
             DequeueMisses(w) => Indices(loop[w].jid)' = {}
       /\ \A w \in Workers, s \in Slots :
             CompleteMisses(w, s) => Indices(tasks[w][s].job)' = {}]_vars

\* The record of job j is written in this step.
Written(j) == store'[j] # NoRec /\ store'[j] # store[j]

\* The record of job j goes in this step without being deleted.
Expires(j) == store[j] # NoRec /\ store'[j] = NoRec /\ purger.pc # "delete"

\* C24: every write of a record sets its expiry to the time of the write
\* plus the full TTL, whatever the status written, and a record goes by
\* expiry only when that time has come.
C24_WriteResetsTtl ==
    [][\A j \in Jobs :
          /\ Written(j) =>
                IF expiry'[j] = NoExpiry THEN now + job_ttl > horizon
                ELSE expiry'[j] = now + job_ttl
          /\ Expires(j) => expiry[j] # NoExpiry /\ now' >= expiry[j]]_vars

\* C24 witness: a record rewritten by a requeue after the clock has moved
\* holds the full TTL counted from that write.
C24_Witness ==
    \E j \in Jobs :
        /\ store[j].status = "queued"
        /\ store[j].retry_count > 0
        /\ now > 0
        /\ expiry[j] = now + job_ttl

\* get_next_job of worker w returns a job in this step.
DequeueReturns(w) == LoopSave(w)

\* get_next_job of worker w finds the pending index empty in this step.
DequeueEmpty(w) == LoopZrange(w) /\ DOMAIN pending = {}

\* C25: with sequential calls, when get_next_job returns job J, J has left
\* the pending index, is in the in-flight index with the current time as
\* score, and its record is the one the call found with status Processing
\* and started_at set; on an empty pending index the call returns None and
\* the record store and the four indices are unchanged.
C25_DequeueEffect ==
    [][\A w \in Workers :
          /\ DequeueReturns(w) =>
                LET j == loop[w].jid
                IN  /\ InIndex(before[3], j)
                    /\ ~InIndex(pending', j)
                    /\ InIndex(processing', j)
                    /\ processing'[j] = now
                    /\ store'[j] = [before[1][j] EXCEPT !.status = "processing",
                                                         !.started_at = "set"]
                    /\ tasks'[w][NewSlot(w)].job = j
          /\ DequeueEmpty(w) => redis' = redis /\ loop'[w] = IdleLoop]_vars

\* C25 witness: get_next_job has returned a job that had been requeued, and
\* its executor has been created.
C25_Witness ==
    \E w \in Workers, s \in Slots :
        /\ tasks[w][s].pc = "run"
        /\ loop[w].pc = "idle"
        /\ InIndex(processing, tasks[w][s].job)
        /\ store[tasks[w][s].job].status = "processing"
        /\ store[tasks[w][s].job].retry_count > 0

\* complete_job called by the executor in slot s ends in this step.
CompleteEnds(w, s) == tasks[w][s].pc = "c_save" /\ tasks'[w][s].pc # "c_save"

\* A fail_job of the executor in slot s that does not retry ends in this step.
TerminalFailEnds(w, s) == TaskFailSave(w, s) /\ tasks[w][s].data.status = "failed"

\* The record and the index membership of every job but j are left alone.
OthersUnchanged(j) ==
    \A o \in Jobs \ {j} : store'[o] = store[o] /\ Indices(o)' = Indices(o)

\* C26: with sequential calls, when complete_job(J) ends, J is out of the
\* in-flight index and in the completed index and its record is Completed
\* with completed_at and the result given; when a terminal fail_job(J) ends,
\* J is out of the in-flight index and in the failed index with status
\* Failed; the other jobs are untouched.
C26_AcknowledgeEffect ==
    [][\A w \in Workers, s \in Slots :
          LET j == tasks[w][s].job
          IN  /\ CompleteEnds(w, s) =>
                    /\ ~InIndex(processing', j)
                    /\ InIndex(completed', j)
                    /\ store'[j].status = "completed"
                    /\ store'[j].completed_at = "set"
                    /\ store'[j].result = ProcessingResult
                    /\ OthersUnchanged(j)
              /\ TerminalFailEnds(w, s) =>
                    /\ ~InIndex(processing', j)
                    /\ InIndex(failed', j)
                    /\ store'[j].status = "failed"
                    /\ OthersUnchanged(j)]_vars

NotToReap(j) ==
    \/ InIndex(before[3], j)
    \/ InIndex(before[5], j)
    \/ InIndex(before[6], j)
    \/ InIndex(before[4], j) /\ before[4][j] > Cutoff(job_timeout)

\* The record and the index membership of job j are as that call found them.
AsFound(j) ==
    /\ store'[j] = before[1][j]
    /\ InIndex(pending', j) = InIndex(before[3], j)
    /\ InIndex(processing', j) = InIndex(before[4], j)
    /\ InIndex(completed', j) = InIndex(before[5], j)
    /\ InIndex(failed', j) = InIndex(before[6], j)

\* C28: with sequential calls, when cleanup_stuck_jobs has dealt with a job,
\* every job that was in the pending, completed or failed index, or in-flight
\* with a start time after the cutoff, has its record and its index
\* membership unchanged.
C28_ReapFrame ==
    [][\A r \in Reapers :
          ReapReturns(r) => \A j \in Jobs : NotToReap(j) => AsFound(j)]_vars

\* C29: the record a sweep of cleanup_old_jobs deletes is the record of a job
\* that is Completed or Failed and is neither in the pending nor in the
\* in-flight index.
C29_PurgeOnlyTerminal ==
    [][PurgeDelete =>
          LET j == Head(purger.todo)
          IN  store[j] # NoRec =>
                  /\ Terminal(store[j].status)
                  /\ ~InIndex(pending, j)
                  /\ ~InIndex(processing, j)]_vars

\* The executor in slot s is on the failure path of a missing artifact.
ArtifactMissing(w, s) == tasks[w][s].msg = "exec"

\* C30: an execution that finds the artifact missing makes no inference call
\* and goes to fail_job without complete_job, and with sequential calls that
\* fail_job raises retry_count by one and requeues the job if the new
\* retry_count < max_retries, otherwise makes it Failed.
C30_MissingArtifactFails ==
    /\ [](\A w \in Workers, s \in Slots :
             ArtifactMissing(w, s) =>
                 /\ ~tasks[w][s].inference
                 /\ tasks[w][s].pc \in {"f_zrem", "f_get", "f_zadd", "f_save"})
    /\ [][\A w \in Workers, s \in Slots :
             (TaskRaise(w, s) => tasks'[w][s].pc = "f_zrem")
             /\ (ArtifactMissing(w, s) /\ TaskFailSave(w, s) =>
                    LET j == tasks[w][s].job
                    IN  /\ store'[j].retry_count = store[j].retry_count + 1
                        /\ IF store'[j].retry_count < store'[j].max_retries
                           THEN store'[j].status = "queued" /\ InIndex(pending', j)
                           ELSE store'[j].status = "failed" /\ InIndex(failed', j))]_vars

\* C30 witness: an execution that found the artifact missing has used up the
\* retries of its job, which is Failed.
C30_Witness ==
    \E j \in Jobs :
        /\ store[j].status = "failed"
        /\ store[j].error_message = "exec"
        /\ store[j].retry_count = store[j].max_retries
        /\ store[j].retry_count > 1
        /\ hist[j].failed_execs = store[j].retry_count


\* The type of the job once classification has had its say.
FinalType ==
    IF pipeline.result.classification.present
    THEN pipeline.result.classification.document_type
    ELSE pipeline.document_type

EntitiesExtracted ==
    \E i \in 1..Len(pipeline.result.steps_completed) :
        pipeline.result.steps_completed[i] = "entity_extraction"

\* C31: when _process_document returns, entity extraction has run exactly if
\* the type of the job after any reclassification is a structured medical one.
C31_EntityExtractionByFinalType ==
    pipeline.pc = "returned" => (EntitiesExtracted <=> FinalType \in MedicalTypes)

\* The length term of the score as the specification has it, capped at 1.
SpecifiedScore(len, c) ==
    Min(ScoreUnit, Min(ScoreUnit, len * (ScoreUnit \div 1000)) \div 2 + c \div 2)

\* C32: for a text of any length and an extraction confidence in [0, 1], the
\* quality score is min(1, 0.5 * min(1, len / 1000) + 0.5 * c), the assessment
\* is good from 0.7, fair from 0.5 and poor below, and a text under 100
\* characters and a confidence under 0.7 are each flagged.
C32_QualityScore ==
    LET x == pipeline.result.text_extraction
        q == pipeline.result.quality_assessment
        score == SpecifiedScore(x.text_length, x.confidence)
    IN  (q.present /\ ~q.error) =>
           /\ q.quality_score = Round4(score)
           /\ q.assessment = (IF 10 * score >= 7 * ScoreUnit THEN "good"
                              ELSE IF 10 * score >= 5 * ScoreUnit THEN "fair"
                              ELSE "poor")
           /\ ("Low text content" \in q.quality_issues <=> x.text_length < 100)
           /\ ("Low extraction confidence" \in q.quality_issues
                  <=> 10 * x.confidence < 7 * ScoreUnit)

\* The scores of the steps that ran for a job of a type, in a result.
RanScores(document_type, result) ==
    (IF document_type \in UnknownTypes
     THEN <<result.classification.confidence>> ELSE <<>>)
    \o <<result.text_extraction.confidence>>
    \o (IF document_type \in MedicalTypes
        THEN <<result.entity_extraction.confidence>> ELSE <<>>)
    \o <<result.quality_assessment.quality_score>>

\* C33: the overall confidence of a returned result is the mean of the
\* scores of the steps that ran (classification for other/unknown types only,
\* entity extraction for medical types only), a step that errored counting as
\* 0; a result with no score has the confidence 0.
C33_ConfidenceIsMean ==
    /\ pipeline.pc = "returned" =>
          LET r == pipeline.result
              scores == RanScores(pipeline.document_type, r)
          IN  /\ r.confidence_score.den = Len(scores)
              /\ r.confidence_score.num = Sum(scores)
              /\ r.classification.present <=> pipeline.document_type \in UnknownTypes
              /\ r.entity_extraction.present <=> pipeline.document_type \in MedicalTypes
              /\ \A k \in {"classification", "text_extraction", "entity_extraction"} :
                    (r[k].present /\ r[k].error) => r[k].confidence = 0
              /\ r.quality_assessment.error => r.quality_assessment.quality_score = 0
    /\ CalculateConfidenceScore(NewResult).num = 0

\* A medical job whose text extraction errored and whose other steps scored.
C33_Witness ==
    /\ pipeline.pc = "returned"
    /\ pipeline.document_type \in MedicalTypes
    /\ pipeline.result.text_extraction.error
    /\ pipeline.result.entity_extraction.confidence = ScoreUnit
    /\ pipeline.result.confidence_score.den = 3
    /\ pipeline.result.confidence_score.num = ScoreUnit


\* C34: an error of get_next_job inside _processing_loop does not end the
\* loop and touches no executor task: the loop sleeps, and with is_running
\* still true it calls get_next_job again, taking up a job that is pending.
C34_LoopSurvivesError ==
    /\ [][\A w \in Workers :
             LoopError(w) => /\ loop'[w].pc = "backoff"
                             /\ tasks' = tasks
                             /\ proc' = proc]_vars
    /\ [](\A w \in Workers : loop[w].pc \notin {"ended", "cancelled"})
    /\ \A w \in Workers :
          (loop[w].pc = "backoff" /\ DOMAIN pending # {}) ~> (loop[w].pc = "zrem")

\* The loop sleeps after an error while a task it started earlier runs and
\* another job waits.
C34_Witness ==
    \E w \in Workers, s \in Slots :
        /\ loop[w].pc = "backoff"
        /\ proc[w].is_running
        /\ tasks[w][s].pc = "run"
        /\ DOMAIN pending # {}


\* The record queue_document_processing builds for the call under way.
Submitted == ProcessingJob(prod.priority, retry_attempts)

FailsAfterMove(w, s) ==
    /\ tasks[w][s].msg = "move"
    /\ TaskFailZrem(w, s) \/ TaskFailGet(w, s) \/ TaskFailZadd(w, s)
       \/ TaskFailSave(w, s)

\* C36: when move_to_processed fails after complete_job has returned, the
\* fail_job that follows neither requeues nor fails the job: it writes no
\* record and adds the id to neither the pending nor the failed index.
C36_MoveFailureKeepsCompleted ==
    [][\A w \in Workers, s \in Slots :
          FailsAfterMove(w, s) =>
              /\ store' = store
              /\ pending' = pending
              /\ failed' = failed]_vars


Max(a, b) == IF a >= b THEN a ELSE b

\* C37: in every interleaving of the worker and the reaper, a job is
\* written as Processing at most max(1, max_retries) times.
C37_BoundedStarts ==
    \A j \in Jobs :
        store[j] # NoRec => hist[j].starts <= Max(1, store[j].max_retries)

\* C38: no write of a record lowers the retry_count it holds.
C38_RetryCountMonotone ==
    [][\A j \in Jobs :
          (store[j] # NoRec /\ store'[j] # NoRec)
              => store'[j].retry_count >= store[j].retry_count]_vars


Stopped == sched.pc # "constructed" /\ ~sched.is_running

\* C39: once stop_scheduler has been called the tick loop creates no run,
\* and start_scheduler returns; the call leaves the runs under way alone.
C39_StopEndsTicks ==
    /\ [][Stopped => \A t \in MaintenanceTasks : Fired(t)' = Fired(t)]_vars
    /\ [][StopScheduler => units' = units]_vars
    /\ [][Stopped => Stopped']_vars
    /\ Stopped ~> (sched.pc = "exited")

\* start_scheduler has returned after a stop, and a run created before the
\* stop is still under way while another has ended since.
C39_Witness ==
    /\ sched.pc = "exited"
    /\ \E t \in MaintenanceTasks : units[t].running > 0
    /\ \E t \in MaintenanceTasks : units[t].completed > 0


\* fail_job of the executor in slot s reads the record of its job and finds
\* none.
FailJobMisses(w, s) ==
    /\ tasks[w][s].pc = "f_get"
    /\ store[tasks[w][s].job] = NoRec
    /\ tasks'[w][s] # tasks[w][s]

\* fail_job of a run of cleanup_stuck_jobs reads the record of the job and
\* finds none.
ReapMisses(r) ==
    /\ reaper[r].pc = "f_get"
    /\ store[Head(reaper[r].todo)] = NoRec
    /\ reaper'[r] # reaper[r]

\* C40: fail_job on a job without a record takes the id out of the in-flight
\* index and does nothing else: no record, no entry in pending or failed,
\* and the jobs_failed metric as it was.
C40_FailJobWithoutRecord ==
    /\ [][\A w \in Workers, s \in Slots :
             TaskFailZrem(w, s) =>
                 /\ processing' = ZRem(processing, tasks[w][s].job)
                 /\ <<store, expiry, pending, completed, failed, metrics>>'
                       = <<store, expiry, pending, completed, failed, metrics>>]_vars
    /\ [][\A w \in Workers, s \in Slots :
             FailJobMisses(w, s) =>
                 /\ redis' = redis
                 /\ metrics' = metrics
                 /\ tasks'[w][s].pc = "done"]_vars
    /\ [][\A r \in Reapers :
             ReapMisses(r) =>
                 /\ redis' = redis
                 /\ metrics' = metrics
                 /\ reaper'[r].pc \in {"idle", "f_zrem"}]_vars

\* The task of a job whose record had run out has ended through fail_job:
\* the job is in no index, has no record, and no metric of an outcome moved.
C40_Witness ==
    \E j \in Jobs, w \in Workers, s \in Slots :
        /\ \E i \in 1..Len(enqOrder) : enqOrder[i] = j
        /\ store[j] = NoRec
        /\ Indices(j) = {}
        /\ tasks[w][s].pc = "done"
        /\ metrics.jobs_failed = 0
        /\ metrics.jobs_completed = 0

====
